---- MODULE Spec2Model ----
(***************************************************************************)
(* Model of check-changelog.js: the changelog parser, the diff against the *)
(* cached snapshot, the Slack block formatter and the run orchestrator.    *)
(*                                                                         *)
(* A JavaScript string is a sequence of one-character strings (UTF-16 code *)
(* units), indexed from 1.  null is Null; a string read from the cache     *)
(* file is Some(s), so that the empty string and null stay distinct.       *)
(* The local file system is taken to be reliable: reading the cache fails  *)
(* only when the file is absent, and writing it succeeds.  The changelog   *)
(* fetch and the Slack call are not: either may fail.                      *)
(***************************************************************************)
EXTENDS Integers, Sequences, FiniteSets

(***************************************************************************)
(* Strings                                                                 *)
(***************************************************************************)
Null == <<>>
Some(s) == <<s>>

At(s, k) == IF k \in 1..Len(s) THEN s[k] ELSE ""

IsSpace(c) == c \in {" ", "\n", "\t", "\r"}

IsDigit(c) == c \in {"0", "1", "2", "3", "4", "5", "6", "7", "8", "9"}

\* String.prototype.slice(from) on 1-based positions: s[from..Len(s)]
SliceFrom(s, from) == SubSeq(s, from, Len(s))

\* String.prototype.startsWith
StartsWith(s, p) == Len(p) <= Len(s) /\ \A k \in 1..Len(p) : s[k] = p[k]

\* String.prototype.trim
Trim(s) ==
  IF \A k \in 1..Len(s) : IsSpace(s[k]) THEN <<>>
  ELSE LET a == CHOOSE i \in 1..Len(s) :
                   ~IsSpace(s[i]) /\ \A k \in 1..(i - 1) : IsSpace(s[k])
           b == CHOOSE j \in 1..Len(s) :
                   ~IsSpace(s[j]) /\ \A k \in (j + 1)..Len(s) : IsSpace(s[k])
       IN SubSeq(s, a, b)

\* The elements of a finite set of integers in increasing order
SortedSeq(S) ==
  [k \in 1..Cardinality(S) |->
      CHOOSE i \in S : Cardinality({j \in S : j < i}) = k - 1]

\* Array.prototype.reverse
Reverse(q) == [k \in 1..Len(q) |-> q[Len(q) + 1 - k]]

\* Array.prototype.filter, the predicate given as the set of indices it keeps
FilterIdx(q, keep) ==
  LET idx == SortedSeq(keep)
  IN [k \in 1..Len(idx) |-> q[idx[k]]]

(***************************************************************************)
(* parseChangelogEntries: /^## \[?(\d+\.\d+\.\d+)\]?/gm                    *)
(***************************************************************************)
\* Last position of the maximal run of digits starting at i (i - 1: no digit)
DigitRunEnd(s, i) ==
  CHOOSE j \in (i - 1)..Len(s) :
     /\ \A k \in i..j : IsDigit(s[k])
     /\ ~IsDigit(At(s, j + 1))

\* \d+\.\d+\.\d+ matched at p: the position of its last digit, 0 for no match
VersionEnd(s, p) ==
  LET a == DigitRunEnd(s, p)
      b == DigitRunEnd(s, a + 2)
      c == DigitRunEnd(s, b + 2)
  IN IF /\ a >= p /\ At(s, a + 1) = "."
        /\ b >= a + 2 /\ At(s, b + 1) = "."
        /\ c >= b + 2
     THEN c ELSE 0

\* Where the capture group starts for a match attempted at line start i
VersionStart(s, i) == IF At(s, i + 3) = "[" THEN i + 4 ELSE i + 3

\* ^## under the m flag: i begins a line and the line begins with "## "
HeadingAt(s, i) ==
  /\ i = 1 \/ At(s, i - 1) \in {"\n", "\r"}
  /\ At(s, i) = "#" /\ At(s, i + 1) = "#" /\ At(s, i + 2) = " "

MatchAt(s, i) == HeadingAt(s, i) /\ VersionEnd(s, VersionStart(s, i)) # 0

parseChangelogEntries(content) ==
  LET matches == SortedSeq({i \in 1..Len(content) : MatchAt(content, i)})
      stop(k) == IF k < Len(matches) THEN matches[k + 1] - 1 ELSE Len(content)
  IN [k \in 1..Len(matches) |->
        [version |-> SubSeq(content, VersionStart(content, matches[k]),
                            VersionEnd(content, VersionStart(content, matches[k]))),
         content |-> Trim(SubSeq(content, matches[k], stop(k)))]]

(***************************************************************************)
(* findNewEntries                                                          *)
(***************************************************************************)
\* !cachedContent: null and the empty string are both falsy
Falsy(cached) == cached = Null \/ Len(cached[1]) = 0

\* Variant: the filter keeps the versions the cache has (the negation is lost)
findNewEntriesKeepsKnown(currentContent, cachedContent) ==
  IF Falsy(cachedContent)
  THEN LET entries == parseChangelogEntries(currentContent)
       IN SubSeq(entries, 1, IF Len(entries) < 1 THEN Len(entries) ELSE 1)
  ELSE LET currentEntries == parseChangelogEntries(currentContent)
           cachedEntries == parseChangelogEntries(cachedContent[1])
           cachedVersions == {cachedEntries[k].version : k \in 1..Len(cachedEntries)}
       IN FilterIdx(currentEntries,
                    {k \in 1..Len(currentEntries) :
                        currentEntries[k].version \in cachedVersions})

\* Variant: the first run returns every entry (the slice(0, 1) is lost)
findNewEntriesAllOnFirstRun(currentContent, cachedContent) ==
  IF Falsy(cachedContent)
  THEN parseChangelogEntries(currentContent)
  ELSE LET currentEntries == parseChangelogEntries(currentContent)
           cachedEntries == parseChangelogEntries(cachedContent[1])
           cachedVersions == {cachedEntries[k].version : k \in 1..Len(cachedEntries)}
       IN FilterIdx(currentEntries,
                    {k \in 1..Len(currentEntries) :
                        currentEntries[k].version \notin cachedVersions})

\* Variant: entries are compared by their text, not by their version
findNewEntriesByContent(currentContent, cachedContent) ==
  IF Falsy(cachedContent)
  THEN LET entries == parseChangelogEntries(currentContent)
       IN SubSeq(entries, 1, IF Len(entries) < 1 THEN Len(entries) ELSE 1)
  ELSE LET currentEntries == parseChangelogEntries(currentContent)
           cachedEntries == parseChangelogEntries(cachedContent[1])
           cachedTexts == {cachedEntries[k].content : k \in 1..Len(cachedEntries)}
       IN FilterIdx(currentEntries,
                    {k \in 1..Len(currentEntries) :
                        currentEntries[k].content \notin cachedTexts})

findNewEntries(currentContent, cachedContent) ==
  IF Falsy(cachedContent)
  THEN LET entries == parseChangelogEntries(currentContent)
       IN SubSeq(entries, 1, IF Len(entries) < 1 THEN Len(entries) ELSE 1)
  ELSE LET currentEntries == parseChangelogEntries(currentContent)
           cachedEntries == parseChangelogEntries(cachedContent[1])
           cachedVersions == {cachedEntries[k].version : k \in 1..Len(cachedEntries)}
       IN FilterIdx(currentEntries,
                    {k \in 1..Len(currentEntries) :
                        currentEntries[k].version \notin cachedVersions})

(***************************************************************************)
(* formatSlackBlocks                                                       *)
(***************************************************************************)
UpperCase == <<"A", "B", "C", "D", "E", "F", "G", "H", "I", "J", "K", "L", "M",
               "N", "O", "P", "Q", "R", "S", "T", "U", "V", "W", "X", "Y", "Z">>

LowerCase == <<"a", "b", "c", "d", "e", "f", "g", "h", "i", "j", "k", "l", "m",
               "n", "o", "p", "q", "r", "s", "t", "u", "v", "w", "x", "y", "z">>

\* String.prototype.toLowerCase
toLowerCase(s) ==
  [k \in 1..Len(s) |->
      IF \E u \in 1..Len(UpperCase) : UpperCase[u] = s[k]
      THEN LowerCase[CHOOSE u \in 1..Len(UpperCase) : UpperCase[u] = s[k]]
      ELSE s[k]]

\* String.prototype.split('\n')
SplitLines(s) ==
  LET nl == SortedSeq({i \in 1..Len(s) : s[i] = "\n"})
      n == Len(nl)
  IN [k \in 1..(n + 1) |->
        SubSeq(s, IF k = 1 THEN 1 ELSE nl[k - 1] + 1,
                  IF k = n + 1 THEN Len(s) ELSE nl[k] - 1)]

\* Array.prototype.join
RECURSIVE Join(_, _)
Join(parts, sep) ==
  IF Len(parts) = 0 THEN <<>>
  ELSE IF Len(parts) = 1 THEN parts[1]
  ELSE parts[1] \o sep \o Join(Tail(parts), sep)

\* entry.content.split('\n').filter(line => !line.match(/^## /))
BodyLines(content) ==
  LET all == SplitLines(content)
  IN FilterIdx(all, {k \in 1..Len(all) : ~StartsWith(all[k], <<"#", "#", " ">>)})

\* The loop's item strings, in line order: the trimmed lines that start with '-',
\* without the marker, trimmed again
BulletItems(lines) ==
  LET bullets == FilterIdx(lines, {k \in 1..Len(lines) :
                                      StartsWith(Trim(lines[k]), <<"-">>)})
  IN [k \in 1..Len(bullets) |-> Trim(SliceFrom(Trim(bullets[k]), 2))]

\* Variant: startsWith('add') without its trailing space
CategoryOfLooseAdd(item) ==
  LET lower == toLowerCase(item)
  IN IF \/ StartsWith(lower, <<"a", "d", "d">>)
        \/ StartsWith(lower, <<"n", "e", "w", " ">>)
        \/ StartsWith(lower, <<"i", "n", "t", "r", "o", "d", "u", "c", "i", "n", "g">>)
     THEN "added"
     ELSE IF \/ StartsWith(lower, <<"f", "i", "x", "e", "d">>)
             \/ StartsWith(lower, <<"f", "i", "x", " ">>)
     THEN "fixed"
     ELSE IF \/ StartsWith(lower, <<"c", "h", "a", "n", "g", "e", "d">>)
             \/ StartsWith(lower, <<"c", "h", "a", "n", "g", "e", " ">>)
     THEN "changed"
     ELSE IF \/ StartsWith(lower, <<"i", "m", "p", "r", "o", "v", "e", "d">>)
             \/ StartsWith(lower, <<"i", "m", "p", "r", "o", "v", "e", " ">>)
     THEN "improved"
     ELSE IF \/ StartsWith(lower, <<"r", "e", "m", "o", "v", "e", "d">>)
             \/ StartsWith(lower, <<"r", "e", "m", "o", "v", "e", " ">>)
     THEN "removed"
     ELSE "other"

\* The if / else-if chain that picks the category of one item
CategoryOf(item) ==
  LET lower == toLowerCase(item)
  IN IF \/ StartsWith(lower, <<"a", "d", "d", "e", "d">>)
        \/ StartsWith(lower, <<"a", "d", "d", " ">>)
        \/ StartsWith(lower, <<"n", "e", "w", " ">>)
        \/ StartsWith(lower, <<"i", "n", "t", "r", "o", "d", "u", "c", "i", "n", "g">>)
     THEN "added"
     ELSE IF \/ StartsWith(lower, <<"f", "i", "x", "e", "d">>)
             \/ StartsWith(lower, <<"f", "i", "x", " ">>)
     THEN "fixed"
     ELSE IF \/ StartsWith(lower, <<"c", "h", "a", "n", "g", "e", "d">>)
             \/ StartsWith(lower, <<"c", "h", "a", "n", "g", "e", " ">>)
     THEN "changed"
     ELSE IF \/ StartsWith(lower, <<"i", "m", "p", "r", "o", "v", "e", "d">>)
             \/ StartsWith(lower, <<"i", "m", "p", "r", "o", "v", "e", " ">>)
     THEN "improved"
     ELSE IF \/ StartsWith(lower, <<"r", "e", "m", "o", "v", "e", "d">>)
             \/ StartsWith(lower, <<"r", "e", "m", "o", "v", "e", " ">>)
     THEN "removed"
     ELSE "other"

\* Object.values(categories): the keys in insertion order
CategoryKeys == <<"added", "fixed", "changed", "improved", "removed", "other">>

CategoryLabel(key) ==
  CASE key = "added" -> <<"A", "d", "d", "e", "d">>
    [] key = "fixed" -> <<"F", "i", "x", "e", "d">>
    [] key = "changed" -> <<"C", "h", "a", "n", "g", "e", "d">>
    [] key = "improved" -> <<"I", "m", "p", "r", "o", "v", "e", "d">>
    [] key = "removed" -> <<"R", "e", "m", "o", "v", "e", "d">>
    [] key = "other" -> <<"U", "p", "d", "a", "t", "e", "s">>

\* categories after the loop: each key's items, in the order they were pushed
Categorize(items) ==
  [key \in {CategoryKeys[k] : k \in 1..Len(CategoryKeys)} |->
      FilterIdx(items, {k \in 1..Len(items) : CategoryOf(items[k]) = key})]

IsLineEnd(c) == c \in {"\n", "\r"}

\* Where /\*\*(.+?)\*\*/ can match from i: the position of the closing "**"
BoldCloses(s, i) ==
  {j \in (i + 3)..(Len(s) - 1) :
      /\ s[j] = "*" /\ s[j + 1] = "*"
      /\ \A k \in (i + 2)..(j - 1) : ~IsLineEnd(s[k])}

\* .replace(/\*\*(.+?)\*\*/g, '*$1*')
RECURSIVE ReplaceBold(_)
ReplaceBold(s) ==
  LET opens == {i \in 1..(Len(s) - 1) :
                   s[i] = "*" /\ s[i + 1] = "*" /\ BoldCloses(s, i) # {}}
  IN IF opens = {} THEN s
     ELSE LET i == CHOOSE x \in opens : \A y \in opens : x <= y
              j == CHOOSE x \in BoldCloses(s, i) : \A y \in BoldCloses(s, i) : x <= y
          IN SubSeq(s, 1, i - 1) \o <<"*">> \o SubSeq(s, i + 2, j - 1) \o <<"*">>
                \o ReplaceBold(SliceFrom(s, j + 2))

\* Last position of the maximal run of characters other than c starting at i
RunEnd(s, i, c) ==
  CHOOSE j \in (i - 1)..Len(s) :
     /\ \A k \in i..j : s[k] # c
     /\ At(s, j + 1) \in {c, ""}

\* /\[([^\]]+)\]\(([^)]+)\)/ matched at i: the position of the closing ")", else 0
LinkEnd(s, i) ==
  LET a == RunEnd(s, i + 1, "]")
      b == RunEnd(s, a + 3, ")")
  IN IF /\ At(s, i) = "["
        /\ a >= i + 1 /\ At(s, a + 1) = "]" /\ At(s, a + 2) = "("
        /\ b >= a + 3 /\ At(s, b + 1) = ")"
     THEN b + 1 ELSE 0

\* .replace(/\[([^\]]+)\]\(([^)]+)\)/g, '<$2|$1>')
RECURSIVE ReplaceLink(_)
ReplaceLink(s) ==
  LET opens == {i \in 1..Len(s) : s[i] = "[" /\ LinkEnd(s, i) # 0}
  IN IF opens = {} THEN s
     ELSE LET i == CHOOSE x \in opens : \A y \in opens : x <= y
              a == RunEnd(s, i + 1, "]")
              e == LinkEnd(s, i)
          IN SubSeq(s, 1, i - 1) \o <<"<">> \o SubSeq(s, a + 3, e - 1) \o <<"|">>
                \o SubSeq(s, i + 1, a) \o <<">">> \o ReplaceLink(SliceFrom(s, e + 1))

\* .replace(/`([^`]+)`/g, '`$1`') puts back every match as it was
ReplaceCode(s) == s

\* One element of formattedItems: `  •  ${formatted}`
FormatItem(item) ==
  <<" ", " ", "U+2022", " ", " ">> \o ReplaceCode(ReplaceLink(ReplaceBold(item)))

\* `*${cat.label}*\n${formattedItems.join('\n')}`
AssembleSection(key, items) ==
  <<"*">> \o CategoryLabel(key) \o <<"*", "\n">>
    \o Join([k \in 1..Len(items) |-> FormatItem(items[k])], <<"\n">>)

MaxSectionLen == 2900

TruncLen == 2850

TruncMarker == <<"\n", "_", ".", ".", ".", "a", "n", "d", " ", "m", "o", "r", "e", "_">>

\* Variant: the text is cut at the limit itself, slice(0, 2900)
CapSectionAtLimit(sectionText) ==
  IF Len(sectionText) > MaxSectionLen
  THEN SubSeq(sectionText, 1, MaxSectionLen) \o TruncMarker
  ELSE sectionText

\* if (sectionText.length > 2900) sectionText = sectionText.slice(0, 2850) + marker
CapSection(sectionText) ==
  IF Len(sectionText) > MaxSectionLen
  THEN SubSeq(sectionText, 1, TruncLen) \o TruncMarker
  ELSE sectionText

\* The section blocks pushed for the non-empty categories, in key order
CategoryBlocks(categories) ==
  LET keys == FilterIdx(CategoryKeys, {k \in 1..Len(CategoryKeys) :
                                          Len(categories[CategoryKeys[k]]) # 0})
  IN [k \in 1..Len(keys) |->
        [type |-> "section", key |-> keys[k],
         text |-> CapSection(AssembleSection(keys[k], categories[keys[k]]))]]

formatSlackBlocks(entry) ==
  LET categories == Categorize(BulletItems(BodyLines(entry.content)))
  IN << [type |-> "header", key |-> "version", text |-> entry.version],
        [type |-> "section", key |-> "intro", text |-> <<>>],
        [type |-> "divider", key |-> "", text |-> <<>>] >>
     \o CategoryBlocks(categories)
     \o << [type |-> "divider", key |-> "", text |-> <<>>],
           [type |-> "context", key |-> "footer", text |-> <<>>] >>

(***************************************************************************)
(* The documents the changelog URL may serve                               *)
(***************************************************************************)
MaxDocLines == 2

MaxRuns == 3

LineV1 == <<"#", "#", " ", "1", ".", "1", ".", "0">>

LineV2 == <<"#", "#", " ", "[", "1", ".", "2", ".", "0", "]">>

LineV10 == <<"#", "#", " ", "1", ".", "1", "0", ".", "0">>

LineItem == <<"-", " ", "F", "i", "x", "e", "d", " ", "*", "*", "x", "*", "*">>

LineText == <<"S", "e", "e", " ", "#", "#", " ", "9", ".", "9", ".", "9">>

LineNoVersion == <<"#", "#", " ", "v", "1", ".", "2", ".", "0">>

LineV2Plain == <<"#", "#", " ", "1", ".", "2", ".", "0">>

HeadingLines == {LineV1, LineV2}

\* A body without any version heading
DocNoHeading == Join(<<LineText, LineNoVersion, LineItem>>, <<"\n">>)

\* Three releases, newest first, with their items
DocThree == Join(<<LineV10, LineItem, LineV2, <<>>, LineV1, LineItem, <<>>>>, <<"\n">>)

\* Two releases, the newer with its heading written without brackets
DocPlain == Join(<<LineV2Plain, LineItem, LineV1>>, <<"\n">>)

\* The bodies the changelog URL may serve: every text of at most MaxDocLines
\* heading lines (the empty body among them), and the three above
DocSet ==
  {Join(ls, <<"\n">>) : ls \in UNION {[1..n -> HeadingLines] : n \in 0..MaxDocLines}}
    \cup {DocNoHeading, DocThree, DocPlain}

VersionsOf(content) ==
  LET entries == parseChangelogEntries(content)
  IN {entries[k].version : k \in 1..Len(entries)}

HasDistinctVersions(content) ==
  Cardinality(VersionsOf(content)) = Len(parseChangelogEntries(content))

(***************************************************************************)
(* formatSlackBlocks on its own: the entries it is given                   *)
(***************************************************************************)
ItemAdded ==
  <<"A", "d", "d", "e", "d", " ", "x">>

ItemAdd ==
  <<"a", "d", "d", " ", "y">>

ItemAddOn ==
  <<"A", "d", "d", "-", "o", "n", " ", "f", "i", "x", "e", "d">>

ItemNew ==
  <<"N", "E", "W", " ", "a", "p", "i">>

ItemNewer ==
  <<"N", "e", "w", "e", "r", " ", "f", "i", "x">>

ItemIntroducing ==
  <<"I", "n", "t", "r", "o", "d", "u", "c", "i", "n", "g", " ", "q">>

ItemFixedTypo ==
  <<"F", "i", "x", "e", "d", ":", " ", "t", "y", "p", "o", " ", "a", "d",
    "d", "e", "d">>

ItemFix ==
  <<"f", "i", "x", " ", "i", "t">>

ItemFixes ==
  <<"F", "i", "x", "e", "s", " ", "r", "e", "m", "o", "v", "e", "d">>

ItemChanged ==
  <<"C", "h", "a", "n", "g", "e", "d", " ", "*", "*", "b", "*", "*", " ",
    "c">>

ItemChange ==
  <<"c", "h", "a", "n", "g", "e", " ", "[", "l", "]", "(", "u", ")">>

ItemChanges ==
  <<"C", "h", "a", "n", "g", "e", "s">>

ItemImproved ==
  <<"I", "M", "P", "R", "O", "V", "E", "D">>

ItemImprove ==
  <<"i", "m", "p", "r", "o", "v", "e", " ", "U+0060", "x", "U+0060">>

ItemRemoved ==
  <<"R", "e", "m", "o", "v", "e", "d">>

ItemRemove ==
  <<"r", "e", "m", "o", "v", "e", " ", "m", "e">>

ItemUpdated ==
  <<"U", "p", "d", "a", "t", "e", "d", " ", "a", "d", "d", "e", "d">>

ItemStars ==
  <<"*", "*", "*", "a", "*", "*", " ", "[", "b", "]", "c", "(", "d", ")",
    " ", "*", "*">>

FmtItems ==
  {ItemAdded, ItemAdd, ItemAddOn, ItemNew,
   ItemNewer, ItemIntroducing, ItemFixedTypo, ItemFix,
   ItemFixes, ItemChanged, ItemChange, ItemChanges,
   ItemImproved, ItemImprove, ItemRemoved, ItemRemove,
   ItemUpdated, ItemStars}

\* The items of the line that comes after the padded one
FmtSecondItems == {ItemFixedTypo, ItemAdd, ItemUpdated}

\* How far below the cap the padding starts, and how many lengths it takes
PadMargin == 30

PadSpread == 5

PadLens == {0} \cup {MaxSectionLen - PadMargin + k : k \in 0..PadSpread}

Pad(n) == [k \in 1..n |-> "x"]

\* An entry as parseChangelogEntries returns it: the heading line, a bullet line
\* with item b made n characters longer, a line that is no bullet, and an
\* indented bullet line with item a
FmtEntry(a, b, n) ==
  [version |-> <<"1", ".", "2", ".", "0">>,
   content |-> Join(<<LineV2,
                      <<"-", " ">> \o b \o Pad(n) \o <<" ", " ">>,
                      <<"A", "d", "d", "e", "d", " ", "-", " ", "n", "o">>,
                      <<" ", "\t", "-", " ", " ">> \o a>>, <<"\n">>)]

FmtEntries ==
  {FmtEntry(a, b, n) : a \in FmtSecondItems, b \in FmtItems \cup {<<>>}, n \in PadLens}

(***************************************************************************)
(* The run: main, postToSlack, saveChangelog, main().catch                 *)
(***************************************************************************)
VARIABLES
  cache,           \* .cache/last-changelog.md: Null (absent) or Some(text)
  configured,      \* slack && SLACK_CHANNEL_ID, as read by this process
  pc,              \* where main stands
  currentContent,  \* Null before the fetch, then Some(text)
  cachedContent,   \* what loadCachedChangelog returned
  newEntries,      \* findNewEntries' result; reversed in place by the loop
  idx,             \* position of the for..of loop in newEntries
  inFlight,        \* the chat.postMessage call being awaited, or Null
  exitCode,        \* 1 once main().catch ran
  error,           \* which call threw: "", "fetch", "config" or "slack"
  \* What an observer of the run has seen
  runs,            \* processes started so far
  cacheAtStart,    \* the cache file when this process started
  fetches,         \* fetch calls of this run
  calls,           \* chat.postMessage calls of this run
  slackLog,        \* entries Slack accepted in this run, in order
  saved,           \* cache writes of this run: the text and the deliveries before it
  prev,            \* the previous run: how it ended, its document and its queue
  clean,           \* so far no run failed, every document had distinct headings
                   \* and kept the versions of the documents before it
  seen,            \* while clean: the versions of the documents fetched so far
  posted,          \* while clean: the versions Slack accepted, over all runs
  reposted,        \* while clean: the versions Slack accepted more than once
  \* formatSlackBlocks on its own
  fEntry,          \* the entry given to formatSlackBlocks
  fBlocks,         \* Null, then Some(the blocks it returned)
  fCategories      \* Null, then Some(the categories its loop built)

\* The process
proc == <<configured, pc, currentContent, cachedContent, newEntries, idx, inFlight,
          exitCode, error>>

\* The observer of one run
watch == <<runs, cacheAtStart, fetches, calls, slackLog, saved, prev>>

\* The observer of the whole sequence of runs
history == <<clean, seen, posted, reposted>>

fmtVars == <<fEntry, fBlocks, fCategories>>

vars == <<cache, proc, watch, history, fmtVars>>

NoPrev == [outcome |-> "none", doc |-> Null, queue |-> <<>>, failedAt |-> 0]

FmtIdle == fEntry = Null /\ fBlocks = Null /\ fCategories = Null

InitRun ==
  /\ cache = Null
  /\ configured = TRUE
  /\ pc = "exit"
  /\ currentContent = Null
  /\ cachedContent = Null
  /\ newEntries = <<>>
  /\ idx = 0
  /\ inFlight = Null
  /\ exitCode = 0
  /\ error = ""
  /\ runs = 0
  /\ cacheAtStart = Null
  /\ fetches = 0
  /\ calls = 0
  /\ slackLog = <<>>
  /\ saved = <<>>
  /\ prev = NoPrev
  /\ clean = TRUE
  /\ seen = {}
  /\ posted = {}
  /\ reposted = {}

Init == InitRun /\ FmtIdle

\* A process is started: node src/check-changelog.js reads its environment
Start(cfg) ==
  /\ pc = "exit"
  /\ runs < MaxRuns
  /\ runs' = runs + 1
  /\ configured' = cfg
  /\ pc' = "fetch"
  /\ prev' = IF runs = 0 THEN NoPrev
             ELSE [outcome |-> IF exitCode = 0 THEN "done" ELSE error,
                   doc |-> currentContent,
                   queue |-> newEntries,
                   failedAt |-> IF error \in {"config", "slack"} THEN idx ELSE 0]
  /\ currentContent' = Null
  /\ cachedContent' = Null
  /\ newEntries' = <<>>
  /\ idx' = 0
  /\ inFlight' = Null
  /\ exitCode' = 0
  /\ error' = ""
  /\ cacheAtStart' = cache
  /\ fetches' = 0
  /\ calls' = 0
  /\ slackLog' = <<>>
  /\ saved' = <<>>
  /\ UNCHANGED <<cache, history>>

\* Variant: the error is logged and the process exits with 0
CatchExitZero(kind) ==
  /\ pc' = "exit"
  /\ exitCode' = 0
  /\ error' = kind
  /\ clean' = FALSE
  /\ seen' = {}
  /\ posted' = {}
  /\ reposted' = {}

\* main().catch(err => { console.error(...); process.exit(1); })
Catch(kind) ==
  /\ pc' = "exit"
  /\ exitCode' = 1
  /\ error' = kind
  /\ clean' = FALSE
  /\ seen' = {}
  /\ posted' = {}
  /\ reposted' = {}

\* fetchChangelog: response.ok, the body is returned
FetchOk(d) ==
  /\ pc = "fetch"
  /\ fetches' = fetches + 1
  /\ currentContent' = Some(d)
  /\ pc' = "load"
  /\ clean' = (clean /\ HasDistinctVersions(d) /\ seen \subseteq VersionsOf(d))
  /\ seen' = IF clean' THEN seen \cup VersionsOf(d) ELSE {}
  /\ posted' = IF clean' THEN posted ELSE {}
  /\ reposted' = IF clean' THEN reposted ELSE {}
  /\ UNCHANGED <<cache, configured, cachedContent, newEntries, idx, inFlight,
                 exitCode, error, runs, cacheAtStart, calls, slackLog, saved, prev>>

\* fetchChangelog: !response.ok, or the request itself failed
FetchFail ==
  /\ pc = "fetch"
  /\ fetches' = fetches + 1
  /\ Catch("fetch")
  /\ UNCHANGED <<cache, configured, currentContent, cachedContent, newEntries, idx,
                 inFlight, runs, cacheAtStart, calls, slackLog, saved, prev>>

\* loadCachedChangelog: the file's text, or null when there is no file
Load ==
  /\ pc = "load"
  /\ cachedContent' = cache
  /\ pc' = "find"
  /\ UNCHANGED <<cache, configured, currentContent, newEntries, idx, inFlight,
                 exitCode, error, watch, history>>

\* const newEntries = findNewEntries(currentContent, cachedContent)
Find ==
  /\ pc = "find"
  /\ newEntries' = findNewEntries(currentContent[1], cachedContent)
  /\ pc' = "found"
  /\ UNCHANGED <<cache, configured, currentContent, cachedContent, idx, inFlight,
                 exitCode, error, watch, history>>

\* Variant: main returns when there is nothing to post
NoNewReturns ==
  /\ pc = "found"
  /\ Len(newEntries) = 0
  /\ pc' = "exit"
  /\ UNCHANGED <<cache, configured, currentContent, cachedContent, newEntries, idx,
                 inFlight, exitCode, error, watch, history>>

\* newEntries.length === 0: nothing to post
NoNew ==
  /\ pc = "found"
  /\ Len(newEntries) = 0
  /\ pc' = "save"
  /\ UNCHANGED <<cache, configured, currentContent, cachedContent, newEntries, idx,
                 inFlight, exitCode, error, watch, history>>

\* Variant: the loop runs over newEntries as findNewEntries returned it
BeginPostNoReverse ==
  /\ pc = "found"
  /\ Len(newEntries) # 0
  /\ idx' = 1
  /\ pc' = "post"
  /\ UNCHANGED <<cache, configured, currentContent, cachedContent, newEntries,
                 inFlight, exitCode, error, watch, history>>

\* for (const entry of newEntries.reverse()): the array is reversed in place
BeginPost ==
  /\ pc = "found"
  /\ Len(newEntries) # 0
  /\ newEntries' = Reverse(newEntries)
  /\ idx' = 1
  /\ pc' = "post"
  /\ UNCHANGED <<cache, configured, currentContent, cachedContent, inFlight,
                 exitCode, error, watch, history>>

\* postToSlack up to its await: the blocks are built and chat.postMessage is called
PostCall ==
  /\ pc = "post"
  /\ configured
  /\ inFlight' = Some([text |-> newEntries[idx].version,
                       blocks |-> formatSlackBlocks(newEntries[idx])])
  /\ calls' = calls + 1
  /\ pc' = "await"
  /\ UNCHANGED <<cache, configured, currentContent, cachedContent, newEntries, idx,
                 exitCode, error, runs, cacheAtStart, fetches, slackLog, saved,
                 prev, history>>

\* postToSlack: !slack || !SLACK_CHANNEL_ID, the message is printed and it throws
PostNotConfigured ==
  /\ pc = "post"
  /\ ~configured
  /\ Catch("config")
  /\ UNCHANGED <<cache, configured, currentContent, cachedContent, newEntries, idx,
                 inFlight, watch>>

\* result.ok: the message is in the channel; the loop goes on or ends
SlackOk ==
  /\ pc = "await"
  /\ slackLog' = Append(slackLog, newEntries[idx])
  /\ posted' = IF clean THEN posted \cup {newEntries[idx].version} ELSE {}
  /\ reposted' = IF clean THEN reposted \cup ({newEntries[idx].version} \cap posted)
                 ELSE {}
  /\ inFlight' = Null
  /\ idx' = idx + 1
  /\ pc' = IF idx < Len(newEntries) THEN "post" ELSE "save"
  /\ UNCHANGED <<cache, configured, currentContent, cachedContent, newEntries,
                 exitCode, error, runs, cacheAtStart, fetches, calls, saved, prev,
                 clean, seen>>

\* Variant: the cache is saved on the way out of a failed delivery
SlackFailSaves ==
  /\ pc = "await"
  /\ inFlight' = Null
  /\ cache' = Some(currentContent[1])
  /\ Catch("slack")
  /\ UNCHANGED <<configured, currentContent, cachedContent, newEntries, idx, watch>>

\* !result.ok, or the call itself failed: postToSlack throws
SlackFail ==
  /\ pc = "await"
  /\ inFlight' = Null
  /\ Catch("slack")
  /\ UNCHANGED <<cache, configured, currentContent, cachedContent, newEntries, idx,
                 watch>>

\* await saveChangelog(currentContent); main returns
Save ==
  /\ pc = "save"
  /\ cache' = Some(currentContent[1])
  /\ saved' = Append(saved, [content |-> currentContent[1], after |-> Len(slackLog)])
  /\ pc' = "exit"
  /\ UNCHANGED <<configured, currentContent, cachedContent, newEntries, idx,
                 inFlight, exitCode, error, runs, cacheAtStart, fetches, calls,
                 slackLog, prev, history>>

Next ==
  \/ \E cfg \in BOOLEAN : Start(cfg) /\ UNCHANGED fmtVars
  \/ \E d \in DocSet : FetchOk(d) /\ UNCHANGED fmtVars
  \/ FetchFail /\ UNCHANGED fmtVars
  \/ Load /\ UNCHANGED fmtVars
  \/ Find /\ UNCHANGED fmtVars
  \/ NoNew /\ UNCHANGED fmtVars
  \/ BeginPost /\ UNCHANGED fmtVars
  \/ PostCall /\ UNCHANGED fmtVars
  \/ PostNotConfigured /\ UNCHANGED fmtVars
  \/ SlackOk /\ UNCHANGED fmtVars
  \/ SlackFail /\ UNCHANGED fmtVars
  \/ Save /\ UNCHANGED fmtVars

Spec == Init /\ [][Next]_vars

(***************************************************************************)
(* formatSlackBlocks applied to one entry                                  *)
(***************************************************************************)
InitFmt ==
  /\ InitRun
  /\ fEntry \in {Some(e) : e \in FmtEntries}
  /\ fBlocks = Null
  /\ fCategories = Null

\* formatSlackBlocks(entry): the categories its loop fills, the blocks it returns
FormatEntry ==
  /\ fBlocks = Null
  /\ fCategories' = Some(Categorize(BulletItems(BodyLines(fEntry[1].content))))
  /\ fBlocks' = Some(formatSlackBlocks(fEntry[1]))
  /\ UNCHANGED <<fEntry, cache, proc, watch, history>>

NextFmt == FormatEntry

SpecFmt == InitFmt /\ [][NextFmt]_vars

(***************************************************************************)
(* Properties of the run                                                   *)
(***************************************************************************)
\* findNewEntries has been called in this run
Diffed ==
  \/ pc \in {"found", "post", "await", "save"}
  \/ pc = "exit" /\ runs > 0 /\ error # "fetch"

\* main returned: the process exits with 0
Succeeded == pc = "exit" /\ runs > 0 /\ exitCode = 0

\* main threw: main().catch ended the process
Failed == pc = "exit" /\ runs > 0 /\ error # ""

\* The entries in the order the loop takes them
Queue == IF pc = "found" THEN Reverse(newEntries) ELSE newEntries

IsPrefix(p, q) == Len(p) <= Len(q) /\ p = SubSeq(q, 1, Len(p))

\* C1: when the run before this one completed (its cache write included) and
\* this run fetched the same document, this run finds no new entry, calls Slack
\* for none and delivers none.
C1_Idempotence ==
  (prev.outcome = "done" /\ Diffed /\ currentContent = prev.doc)
    => (newEntries = <<>> /\ calls = 0 /\ slackLog = <<>>)

\* A run that delivered two entries or more was followed by a completed run on
\* the same document
C1_Witness ==
  /\ Succeeded
  /\ prev.outcome = "done"
  /\ prev.doc = currentContent
  /\ Len(prev.queue) >= 2

\* C2: when the delivery of entry N of a run's M new entries fails, entries
\* 1..N-1 are in the channel, no entry after N was sent, and the cache is as it
\* was; the next run on the same document has the same M entries in the same
\* order, delivers them from the first, and all of them when it completes.
C2_AtLeastOnce ==
  /\ (Failed /\ error \in {"slack", "config"})
       => /\ idx \in 1..Len(newEntries)
          /\ slackLog = SubSeq(newEntries, 1, idx - 1)
          /\ calls <= idx
          /\ saved = <<>>
          /\ cache = cacheAtStart
  /\ (prev.outcome \in {"slack", "config"} /\ Diffed /\ currentContent = prev.doc)
       => /\ Queue = prev.queue
          /\ IsPrefix(slackLog, prev.queue)
          /\ (Succeeded => slackLog = prev.queue)

\* The second of three deliveries failed, and the next run delivered all three
C2_Witness ==
  /\ prev.outcome = "slack"
  /\ prev.failedAt = 2
  /\ Len(prev.queue) = 3
  /\ currentContent = prev.doc
  /\ Succeeded
  /\ slackLog = prev.queue

\* C3: Slack is called for one entry at a time, the next call only after the
\* one before was answered, and the entries delivered are entries of the
\* fetched document taken from its end towards its start: of two delivered
\* entries, the one later in the document was delivered first.
C3_DeliveryOrder ==
  /\ (inFlight # Null) <=> (pc = "await")
  /\ calls = Len(slackLog) + (IF pc = "await" \/ error = "slack" THEN 1 ELSE 0)
  /\ currentContent = Null => slackLog = <<>>
  /\ currentContent # Null =>
       LET doc == parseChangelogEntries(currentContent[1])
       IN \E f \in [1..Len(slackLog) -> 1..Len(doc)] :
             /\ \A k \in 1..Len(slackLog) : doc[f[k]] = slackLog[k]
             /\ \A j, k \in 1..Len(slackLog) : j < k => f[j] > f[k]

\* Three entries of one document were delivered, the oldest first
C3_Witness ==
  /\ Succeeded
  /\ Len(slackLog) = 3
  /\ slackLog[1].version = <<"1", ".", "1", ".", "0">>
  /\ slackLog[3].version = <<"1", ".", "1", "0", ".", "0">>

\* C4: a run whose fetch and deliveries all succeeded has written the cache
\* once, after its last delivery, with the whole fetched document, also when
\* it found no new entry; no other run has written it.
C4_CacheWrite ==
  /\ Succeeded
       => /\ Len(saved) = 1
          /\ saved[1].content = currentContent[1]
          /\ saved[1].after = Len(newEntries)
          /\ slackLog = newEntries
          /\ cache = Some(currentContent[1])
  /\ ~Succeeded => saved = <<>>

\* A run on the document the cache already held: nothing new, nothing
\* delivered, the cache written again with the same text
C4_Witness ==
  /\ Succeeded
  /\ cacheAtStart = Some(DocThree)
  /\ currentContent = Some(DocThree)
  /\ newEntries = <<>>
  /\ Len(saved) = 1
  /\ cache = cacheAtStart

\* C5: a run that failed in the fetch or in a delivery (Slack's answer, or no
\* credential with an entry to post) fetched once, called Slack at most once
\* per entry, left the cache as it found it and exited with a non-zero code.
C5_NoPersistOnError ==
  /\ Failed
       => /\ error \in {"fetch", "slack", "config"}
          /\ exitCode = 1
          /\ cache = cacheAtStart
          /\ saved = <<>>
          /\ fetches = 1
          /\ calls = Len(slackLog) + (IF error = "slack" THEN 1 ELSE 0)
          /\ error = "fetch" => (calls = 0 /\ currentContent = Null)
          /\ error = "config" => (calls = 0 /\ newEntries # <<>>)
  /\ (pc = "exit" /\ exitCode # 0) => Failed

\* A delivery failed after another had succeeded, with a cache present
C5_Witness ==
  /\ Failed
  /\ error = "slack"
  /\ Len(slackLog) >= 1
  /\ cacheAtStart # Null
  /\ cacheAtStart # currentContent

\* C6: with a cached snapshot that is not null, findNewEntries returns the
\* entries of the current document whose version no entry of the snapshot has,
\* in the document's order.
C6_DiffPresentCache ==
  (pc = "found" /\ cachedContent # Null)
    => LET current == parseChangelogEntries(currentContent[1])
       IN newEntries =
            FilterIdx(current,
                      {k \in 1..Len(current) :
                          current[k].version \notin VersionsOf(cachedContent[1])})

\* C7: with no cached snapshot, findNewEntries returns nothing for a document
\* without entries and otherwise the document's first entry alone; the run
\* calls Slack at most once.
C7_FirstRun ==
  /\ (pc = "found" /\ cachedContent = Null)
       => LET current == parseChangelogEntries(currentContent[1])
          IN /\ Len(newEntries) <= 1
             /\ Len(current) = 0 => newEntries = <<>>
             /\ Len(current) > 0 => newEntries = <<current[1]>>
  /\ (runs > 0 /\ cacheAtStart = Null) => (calls <= 1 /\ Len(slackLog) <= 1)

\* A first run on a document of three entries delivered its first entry only
C7_Witness ==
  /\ Succeeded
  /\ cacheAtStart = Null
  /\ currentContent = Some(DocThree)
  /\ Len(slackLog) = 1
  /\ slackLog[1].version = <<"1", ".", "1", "0", ".", "0">>

\* C10: as long as every run completed, every fetched document had pairwise
\* distinct versions and kept the versions of the documents before it, no
\* version was delivered more than once over all the runs.
C10_ExactlyOnce == clean => reposted = {}

\* Three runs on a growing changelog delivered three versions
C10_Witness ==
  /\ clean
  /\ Succeeded
  /\ runs = MaxRuns
  /\ Cardinality(posted) = 3
  /\ slackLog # <<>>

(***************************************************************************)
(* Properties of formatSlackBlocks                                         *)
(***************************************************************************)
\* The section text before the cap, for a category of the formatted entry
Assembled(key) == AssembleSection(key, fCategories[1][key])

SectionBlocks(key) ==
  {k \in 1..Len(fBlocks[1]) :
      fBlocks[1][k].type = "section" /\ fBlocks[1][k].key = key}

\* The text emitted for an assembled text a is e
Capped(a, e) ==
  IF Len(a) > 2900
  THEN /\ Len(e) >= Len(TruncMarker)
       /\ SubSeq(e, Len(e) - Len(TruncMarker) + 1, Len(e)) = TruncMarker
       /\ Len(e) - Len(TruncMarker) <= 2851
       /\ IsPrefix(SubSeq(e, 1, Len(e) - Len(TruncMarker)), a)
  ELSE e = a

\* C8: a category section whose assembled text has more than 2,900 characters
\* is emitted as a prefix of it of at most 2,851 characters followed by the
\* marker; one of at most 2,900 characters is emitted as it is.
C8_SectionCap ==
  fBlocks # Null =>
    \A k \in 1..Len(CategoryKeys) :
       LET key == CategoryKeys[k]
       IN IF fCategories[1][key] = <<>> THEN SectionBlocks(key) = {}
          ELSE /\ Cardinality(SectionBlocks(key)) = 1
               /\ \A b \in SectionBlocks(key) : Capped(Assembled(key), fBlocks[1][b].text)

\* A section one character over the limit was cut
C8_Witness ==
  /\ fBlocks # Null
  /\ \E k \in 1..Len(CategoryKeys) :
        /\ fCategories[1][CategoryKeys[k]] # <<>>
        /\ Len(Assembled(CategoryKeys[k])) = MaxSectionLen + 1

\* The prefixes, in the order they are tried
PrefixTable ==
  << [key |-> "added",
      prefixes |-> {<<"a", "d", "d", "e", "d">>, <<"a", "d", "d", " ">>,
                    <<"n", "e", "w", " ">>,
                    <<"i", "n", "t", "r", "o", "d", "u", "c", "i", "n", "g">>}],
     [key |-> "fixed",
      prefixes |-> {<<"f", "i", "x", "e", "d">>, <<"f", "i", "x", " ">>}],
     [key |-> "changed",
      prefixes |-> {<<"c", "h", "a", "n", "g", "e", "d">>,
                    <<"c", "h", "a", "n", "g", "e", " ">>}],
     [key |-> "improved",
      prefixes |-> {<<"i", "m", "p", "r", "o", "v", "e", "d">>,
                    <<"i", "m", "p", "r", "o", "v", "e", " ">>}],
     [key |-> "removed",
      prefixes |-> {<<"r", "e", "m", "o", "v", "e", "d">>,
                    <<"r", "e", "m", "o", "v", "e", " ">>}] >>

\* c is the lower-case letter d or its capital, or the same character
SameLetter(c, d) ==
  c = d \/ \E u \in 1..Len(UpperCase) : UpperCase[u] = c /\ LowerCase[u] = d

HasPrefixNoCase(item, p) ==
  Len(p) <= Len(item) /\ \A k \in 1..Len(p) : SameLetter(item[k], p[k])

\* The category of the first row of the table with a prefix of the item
ExpectedCategory(item) ==
  LET hits == {r \in 1..Len(PrefixTable) :
                  \E p \in PrefixTable[r].prefixes : HasPrefixNoCase(item, p)}
  IN IF hits = {} THEN "other"
     ELSE PrefixTable[CHOOSE r \in hits : \A q \in hits : r <= q].key

\* C9: the loop puts every bullet item in exactly one of the six categories,
\* the one of the first prefix row that matches the item's start whatever the
\* case, Updates when none does; each category keeps its items in line order.
C9_Classification ==
  fCategories # Null =>
    LET items == BulletItems(BodyLines(fEntry[1].content))
        cats == fCategories[1]
    IN /\ DOMAIN cats = {CategoryKeys[k] : k \in 1..Len(CategoryKeys)}
       /\ \A key \in DOMAIN cats :
             cats[key] = FilterIdx(items, {k \in 1..Len(items) :
                                              ExpectedCategory(items[k]) = key})

\* "Fixed: typo added" is under Fixed and "Add-on fixed" under Updates
C9_Witness ==
  /\ fCategories # Null
  /\ fCategories[1]["fixed"] = <<ItemFixedTypo>>
  /\ fCategories[1]["other"] = <<ItemAddOn>>
  /\ fCategories[1]["added"] = <<>>

====
